---- MODULE Spec2Model ----
(***************************************************************************)
(* Blocking ADC traits of embedded-hal (src/embedded-hal/src/adc.rs):      *)
(* the AdcChannel trait with its default unit conversions, the blanket     *)
(* implementation for &mut T, the ErrorKind classification and the         *)
(* documented example driver MySpinningAdc.                                *)
(*                                                                         *)
(* An i64 is kept at its full width as four 16-bit limbs in two's          *)
(* complement, least significant limb first; an i32 is an integer of       *)
(* -2^31 .. 2^31-1.                                                        *)
(***************************************************************************)
EXTENDS Integers, Sequences, FiniteSets, TLC

(***************************************************************************)
(* Bounds of the model.                                                    *)
(***************************************************************************)
\* Readings are drawn from every anchor value and its neighbours at
\* distance at most Spread.
Spread == 1
\* Deepest nesting of mutable borrows: 1 is &mut C, 2 is &mut &mut C.
MaxDepth == 2
\* Number of measurement calls made on the channel.
MaxCalls == 2
\* Number of times kind() is applied to the error of a failed call.
MaxKind == 2
\* "Just pretend this returns false the first few times": the largest
\* number of times is_ready answers false before it answers true.
MaxSpin == 2

(***************************************************************************)
(* Integer arithmetic of the i64 and i32 types.                            *)
(***************************************************************************)
LimbBase == 65536
LimbHalf == LimbBase \div 2
LimbMax  == LimbBase - 1

I64Zero == <<0, 0, 0, 0>>

IsNeg64(x) == x[4] >= LimbHalf

\* x + y + c on 64 bits, with the carry out of the top limb.
AddC(x, y, c) ==
    LET s1 == x[1] + y[1] + c
        s2 == x[2] + y[2] + (s1 \div LimbBase)
        s3 == x[3] + y[3] + (s2 \div LimbBase)
        s4 == x[4] + y[4] + (s3 \div LimbBase)
    IN  [val   |-> <<s1 % LimbBase, s2 % LimbBase, s3 % LimbBase, s4 % LimbBase>>,
         carry |-> s4 \div LimbBase]

WrappingAdd64(x, y) == AddC(x, y, 0).val

Not64(x) == <<LimbMax - x[1], LimbMax - x[2], LimbMax - x[3], LimbMax - x[4]>>

WrappingNeg64(x) == AddC(Not64(x), I64Zero, 1).val

\* The magnitude of x as an unsigned 64-bit number (2^63 for i64::MIN).
UnsignedAbs64(x) == IF IsNeg64(x) THEN WrappingNeg64(x) ELSE x

\* Unsigned long division of m by a divisor d of at most 15 bits.
UDivSmall(m, d) ==
    LET c4 == m[4]
        c3 == (c4 % d) * LimbBase + m[3]
        c2 == (c3 % d) * LimbBase + m[2]
        c1 == (c2 % d) * LimbBase + m[1]
    IN  [quot |-> <<c1 \div d, c2 \div d, c3 \div d, c4 \div d>>,
         rem  |-> c1 % d]

\* Unsigned product of m and a factor k of at most 15 bits, with the
\* carry out of the top limb.
UMulSmall(m, k) ==
    LET p1 == m[1] * k
        p2 == m[2] * k + (p1 \div LimbBase)
        p3 == m[3] * k + (p2 \div LimbBase)
        p4 == m[4] * k + (p3 \div LimbBase)
    IN  [val   |-> <<p1 % LimbBase, p2 % LimbBase, p3 % LimbBase, p4 % LimbBase>>,
         carry |-> p4 \div LimbBase]

\* x - y on unsigned 64 bits, with the borrow out of the top limb.
USub(x, y) ==
    LET r == AddC(x, Not64(y), 1)
    IN  [val |-> r.val, borrow |-> 1 - r.carry]

\* A division that rounds toward negative infinity instead.
Div64Floor(x, d) ==
    LET m == UDivSmall(UnsignedAbs64(x), d)
    IN  IF ~IsNeg64(x) THEN m.quot
        ELSE IF m.rem = 0 THEN WrappingNeg64(m.quot)
        ELSE Not64(m.quot)

\* i64 `/` by a positive divisor: the quotient of the magnitudes with the
\* sign of the dividend, that is, rounding toward zero.
Div64(x, d) ==
    LET q == UDivSmall(UnsignedAbs64(x), d).quot
    IN  IF IsNeg64(x) THEN WrappingNeg64(q) ELSE q

\* A narrowing that clamps to the ends of the i32 range instead.
AsI32Saturating(x) ==
    IF IsNeg64(x)
    THEN IF x[3] = LimbMax /\ x[4] = LimbMax /\ x[2] >= LimbHalf
         THEN (x[2] - LimbBase) * LimbBase + x[1]
         ELSE (-LimbHalf) * LimbBase
    ELSE IF x[3] = 0 /\ x[4] = 0 /\ x[2] < LimbHalf
         THEN x[2] * LimbBase + x[1]
         ELSE (LimbHalf - 1) * LimbBase + LimbMax

\* `as i32` on an i64: the low 32 bits, read as two's complement.
AsI32(x) ==
    (IF x[2] >= LimbHalf THEN x[2] - LimbBase ELSE x[2]) * LimbBase + x[1]

\* `as i64` on an i32 (or a u16): sign extension.
AsI64(v) ==
    LET ext == IF v < 0 THEN LimbMax ELSE 0
    IN  <<v % LimbBase, (v \div LimbBase) % LimbBase, ext, ext>>

\* A division that rounds toward negative infinity instead.
Div32Floor(a, d) == a \div d

\* i32 `/` by a positive divisor, rounding toward zero.
Div32(a, d) ==
    IF a >= 0 \/ a % d = 0 THEN a \div d ELSE (a \div d) + 1

\* i64 `*` by a factor 0 <= k < 2^30, on 64 bits: the factor is split at
\* 15 bits so that every limb product stays in range.
Mul64(x, k) ==
    LET m  == UnsignedAbs64(x)
        lo == UMulSmall(m, k % LimbHalf).val
        hi == UMulSmall(UMulSmall(m, k \div LimbHalf).val, LimbHalf).val
        p  == WrappingAdd64(lo, hi)
    IN  IF IsNeg64(x) THEN WrappingNeg64(p) ELSE p

(***************************************************************************)
(* Readings the hardware can deliver.                                      *)
(***************************************************************************)
\* The non-negative i64 written in decimal groups of three digits.
RECURSIVE Dec(_)
Dec(g) ==
    IF g = <<>> THEN I64Zero
    ELSE WrappingAdd64(UMulSmall(Dec(SubSeq(g, 1, Len(g) - 1)), 1000).val,
                       AsI64(g[Len(g)]))

I64Max == Dec(<<9, 223, 372, 36, 854, 775, 807>>)
I64Min == WrappingNeg64(Dec(<<9, 223, 372, 36, 854, 775, 808>>))

\* 0, +-1000, -1500, +-1_000_000, the documented 3_300_000_000, the ends
\* of the range whose microvolt value fits an i32, 2^32 * 1000, and the
\* ends of the i64 range (I64Max + 1 wraps to I64Min).
Anchors ==
    { I64Zero,
      Dec(<<1, 0>>),                    WrappingNeg64(Dec(<<1, 0>>)),
      WrappingNeg64(Dec(<<1, 500>>)),
      Dec(<<1, 0, 0>>),                 WrappingNeg64(Dec(<<1, 0, 0>>)),
      Dec(<<3, 300, 0, 0>>),
      Dec(<<2, 147, 483, 647, 999>>),   WrappingNeg64(Dec(<<2, 147, 483, 648, 999>>)),
      Dec(<<4, 294, 967, 296, 0>>),
      I64Max }

Samples == { WrappingAdd64(a, AsI64(d)) : a \in Anchors, d \in (-Spread)..Spread }

\* Microvolt and millivolt values an overriding driver reports.
UvSamples == { -1999, 2147483647 }
MvSamples == { 7 }

(***************************************************************************)
(* Results and errors.                                                     *)
(***************************************************************************)
\* pub enum ErrorKind { Other }
ErrorKinds == { "Other" }

\* Values of a driver's associated Error type: ErrorKind itself, or a
\* driver's own error.
DriverErrors == ErrorKinds \cup { "Timeout" }

\* A Result<i64, E> or a Result<i32, E>: an Ok carries its value in `wide`
\* when it is an i64 and in `val` when it is an i32.
Ok64(n) == [tag |-> "Ok",   val |-> 0, wide |-> n,       err |-> "none"]
Ok32(v) == [tag |-> "Ok",   val |-> v, wide |-> I64Zero, err |-> "none"]
Err(e)  == [tag |-> "Err",  val |-> 0, wide |-> I64Zero, err |-> e]
NoRes   == [tag |-> "None", val |-> 0, wide |-> I64Zero, err |-> "none"]

\* A kind() with the empty body of the Infallible impl instead.
KindInfallible(k) == "unreachable"

\* impl Error for ErrorKind: fn kind(&self) -> ErrorKind { *self }
Kind(k) == k

(***************************************************************************)
(* Drivers.                                                                *)
(***************************************************************************)
\* A driver implements measure_nv and may override measure_uv or
\* measure_mv; MySpinningAdc is the driver of the documentation example.
Kinds == { "plain", "ovUv", "ovMv", "spinning" }

Ops == { "nv", "uv", "mv" }

\* fn data(&mut self) -> u16 { 3300 }
Data == 3300

Thousand == 1000

NvPerMv == 1000000

\* The hardware conditions a driver of kind k can be called in: what its
\* measure_nv is about to answer, what its overrides are about to answer,
\* and how often is_ready is still going to answer false.
NvOutcomes == { Ok64(n) : n \in Samples } \cup { Err(e) : e \in DriverErrors }
UvOutcomes == { Ok32(u) : u \in UvSamples } \cup { Err("Timeout") }
MvOutcomes == { Ok32(m) : m \in MvSamples } \cup { Err("Other") }

Hardware(k) ==
    [ nv    : IF k = "spinning" THEN { NoRes } ELSE NvOutcomes,
      uv    : IF k = "ovUv" THEN UvOutcomes ELSE { NoRes },
      mv    : IF k = "ovMv" THEN MvOutcomes ELSE { NoRes },
      spins : IF k = "spinning" THEN 0..MaxSpin ELSE { 0 } ]

(***************************************************************************)
(* Method resolution.                                                      *)
(***************************************************************************)
Frame(fn, op, level) == [fn |-> fn, op |-> op, level |-> level, pc |-> "call"]

\* The body that C::measure_<op> names for a driver C of kind k: the
\* driver's own method where it has one, the trait's default otherwise.
Dispatch(k, op) ==
    CASE op = "nv" -> IF k = "spinning" THEN "spin_nv" ELSE "driver_nv"
      [] op = "uv" -> IF k = "ovUv" THEN "uv_override" ELSE "uv_default"
      [] op = "mv" -> IF k = "ovMv" THEN "mv_override"
                      ELSE IF k = "spinning" THEN "spin_mv"
                      ELSE "mv_default"

\* measure_<op> called on a value of type &mut ... &mut C with `level`
\* borrows: the blanket impl for level > 0, the driver itself for level 0.
Entry(k, op, level) ==
    IF level = 0 THEN Frame(Dispatch(k, op), op, 0) ELSE Frame("fwd", op, level)

\* A blanket impl that forwards measure_nv only and leaves measure_uv and
\* measure_mv to the trait's defaults instead.
ForwardToDefault(k, op, level) ==
    IF level > 1 THEN Frame("fwd", op, level - 1)
    ELSE Frame(CASE op = "nv" -> Dispatch(k, "nv")
                 [] op = "uv" -> "uv_default"
                 [] op = "mv" -> "mv_default", op, 0)

\* (*self).measure_<op>() inside the blanket impl: *self has one borrow
\* less, and the call resolves to that type's method.
ForwardTarget(k, op, level) == Entry(k, op, level - 1)

\* A default measure_mv bound to the default measure_uv instead.
MvDefaultCalleeDefault(k) == "uv_default"

\* self.measure_uv() inside the default measure_mv: the channel's own
\* measure_uv.
MvDefaultCallee(k) == Dispatch(k, "uv")

(***************************************************************************)
(* Bodies of the trait's default methods and of the example driver.        *)
(***************************************************************************)
\* A `?` that replaces the error by ErrorKind::Other instead.
PropagateAsOther(r) == Err("Other")

\* `?` on an Err: the function returns the error, converted by From, which
\* is the identity for the same error type.
Propagate(r) == Err(r.err)

\* A measure_uv that narrows with a checked conversion and unwraps it
\* instead.
UvDefaultBodyTryFrom(r) ==
    IF r.tag = "Err"
    THEN [ret |-> Propagate(r), arith |-> <<>>, quot |-> I64Zero]
    ELSE LET q == Div64(r.wide, Thousand)
         IN  [ret   |-> IF AsI64(AsI32(q)) = q THEN Ok32(AsI32(q))
                        ELSE [NoRes EXCEPT !.tag = "Panic"],
              arith |-> <<"div64", "as_i32">>,
              quot  |-> q]

\* Ok((self.measure_nv()? / 1_000) as i32), given what measure_nv returned.
UvDefaultBody(r) ==
    IF r.tag = "Err"
    THEN [ret |-> Propagate(r), arith |-> <<>>, quot |-> I64Zero]
    ELSE LET q == Div64(r.wide, Thousand)
         IN  [ret   |-> Ok32(AsI32(q)),
              arith |-> <<"div64", "as_i32">>,
              quot  |-> q]

\* Ok(self.measure_uv()? / 1_000), given what measure_uv returned.
MvDefaultBody(r) ==
    IF r.tag = "Err"
    THEN [ret |-> Propagate(r), arith |-> <<>>]
    ELSE [ret |-> Ok32(Div32(r.val, Thousand)), arith |-> <<"div32">>]

\* A measure_nv that scales by 1_000 instead.
SpinNvBodyMicro(r) ==
    IF r.tag = "Err" THEN Err(r.err) ELSE Ok64(Mul64(AsI64(r.val), Thousand))

\* MySpinningAdc: Ok(self.measure_mv()? as i64 * 1_000_000), given what
\* its measure_mv returned (a u16 reading times 1_000_000 is below 2^63).
SpinNvBody(r) ==
    IF r.tag = "Err" THEN Err(r.err) ELSE Ok64(Mul64(AsI64(r.val), NvPerMv))

(***************************************************************************)
(* State.                                                                  *)
(***************************************************************************)
VARIABLES
    kind,        \* the kind of driver C is
    chan,        \* the state of C: hardware condition and invocation counts
    calls,       \* measurement calls made by the consumer so far
    stack,       \* the call stack of the running call, innermost frame last
    ret,         \* the value being returned, then the result of the call
    cur,         \* the running (or last) call: operation, borrows, C at entry
    nvRet,       \* what measure_nv returned in this call
    uvRet,       \* what measure_uv returned in this call
    arith,       \* arithmetic the default bodies performed in this call
    quot,        \* the i64 quotient measure_nv()? / 1_000 of this call
    classified   \* classification of the call's error by kind()

vars == <<kind, chan, calls, stack, ret, cur, nvRet, uvRet, arith, quot, classified>>

NoKind == [kind |-> "none", times |-> 0]

Channel(h) == [nv |-> h.nv, uv |-> h.uv, mv |-> h.mv, spins |-> h.spins,
               nvCalls |-> 0, uvCalls |-> 0]

Init ==
    /\ kind \in Kinds
    /\ \E h \in Hardware(kind) : chan = Channel(h)
    /\ calls = 0
    /\ stack = <<>>
    /\ ret = NoRes
    /\ cur = [op |-> "none", depth |-> 0, chan |-> chan]
    /\ nvRet = NoRes
    /\ uvRet = NoRes
    /\ arith = <<>>
    /\ quot = I64Zero
    /\ classified = NoKind

SpinInit ==
    /\ Init
    /\ kind = "spinning"

Top == stack[Len(stack)]
Pop == SubSeq(stack, 1, Len(stack) - 1)
Running(fn, pc) ==
    /\ stack # <<>>
    /\ Top.fn = fn
    /\ Top.pc = pc
Returned == ret.tag # "None"

(***************************************************************************)
(* The consumer.                                                           *)
(***************************************************************************)
\* The consumer calls measure_<op> through d borrows of C, the hardware
\* being in condition h.
Call(op, d) ==
    /\ stack = <<>>
    /\ calls < MaxCalls
    /\ \E h \in Hardware(kind) :
          LET c == [chan EXCEPT !.nv = h.nv, !.uv = h.uv, !.mv = h.mv,
                                !.spins = h.spins]
          IN  /\ chan' = c
              /\ cur' = [op |-> op, depth |-> d, chan |-> c]
    /\ calls' = calls + 1
    /\ stack' = <<Entry(kind, op, d)>>
    /\ ret' = NoRes
    /\ nvRet' = NoRes
    /\ uvRet' = NoRes
    /\ arith' = <<>>
    /\ quot' = I64Zero
    /\ classified' = NoKind
    /\ UNCHANGED kind

\* The consumer classifies the error of a failed call whose error type is
\* ErrorKind: e.kind(), then kind() of that, and so on.
Classify ==
    /\ stack = <<>>
    /\ ret.tag = "Err"
    /\ ret.err \in ErrorKinds
    /\ classified.times < MaxKind
    /\ classified' = [kind  |-> Kind(IF classified.times = 0 THEN ret.err
                                     ELSE classified.kind),
                      times |-> classified.times + 1]
    /\ UNCHANGED <<kind, chan, calls, stack, ret, cur, nvRet, uvRet, arith, quot>>

(***************************************************************************)
(* impl<T: AdcChannel + ?Sized> AdcChannel for &mut T                      *)
(***************************************************************************)
ForwardCall ==
    /\ Running("fwd", "call")
    /\ stack' = Append([stack EXCEPT ![Len(stack)].pc = "wait"],
                       ForwardTarget(kind, Top.op, Top.level))
    /\ UNCHANGED <<kind, chan, calls, ret, cur, nvRet, uvRet, arith, quot, classified>>

ForwardReturn ==
    /\ Running("fwd", "wait")
    /\ Returned
    /\ stack' = Pop
    /\ UNCHANGED <<kind, chan, calls, ret, cur, nvRet, uvRet, arith, quot, classified>>

(***************************************************************************)
(* A driver's own methods.                                                 *)
(***************************************************************************)
DriverNv ==
    /\ Running("driver_nv", "call")
    /\ stack' = Pop
    /\ ret' = chan.nv
    /\ nvRet' = chan.nv
    /\ chan' = [chan EXCEPT !.nvCalls = @ + 1]
    /\ UNCHANGED <<kind, calls, cur, uvRet, arith, quot, classified>>

UvOverride ==
    /\ Running("uv_override", "call")
    /\ stack' = Pop
    /\ ret' = chan.uv
    /\ uvRet' = chan.uv
    /\ chan' = [chan EXCEPT !.uvCalls = @ + 1]
    /\ UNCHANGED <<kind, calls, cur, nvRet, arith, quot, classified>>

MvOverride ==
    /\ Running("mv_override", "call")
    /\ stack' = Pop
    /\ ret' = chan.mv
    /\ UNCHANGED <<kind, chan, calls, cur, nvRet, uvRet, arith, quot, classified>>

(***************************************************************************)
(* The trait's default methods.                                            *)
(***************************************************************************)
UvDefaultCall ==
    /\ Running("uv_default", "call")
    /\ stack' = Append([stack EXCEPT ![Len(stack)].pc = "wait"],
                       Frame(Dispatch(kind, "nv"), "nv", 0))
    /\ chan' = [chan EXCEPT !.uvCalls = @ + 1]
    /\ UNCHANGED <<kind, calls, ret, cur, nvRet, uvRet, arith, quot, classified>>

\* A measure_uv that samples once more when the first sample failed.
UvDefaultReturnRetry ==
    /\ Running("uv_default", "wait")
    /\ Returned
    /\ IF ret.tag = "Err" /\ chan.nvCalls = cur.chan.nvCalls + 1
       THEN /\ stack' = Append(stack, Frame(Dispatch(kind, "nv"), "nv", 0))
            /\ ret' = NoRes
            /\ UNCHANGED <<uvRet, arith, quot>>
       ELSE LET b == UvDefaultBody(ret)
            IN  /\ stack' = Pop
                /\ ret' = b.ret
                /\ uvRet' = b.ret
                /\ arith' = arith \o b.arith
                /\ quot' = b.quot
    /\ UNCHANGED <<kind, chan, calls, cur, nvRet, classified>>

UvDefaultReturn ==
    /\ Running("uv_default", "wait")
    /\ Returned
    /\ LET b == UvDefaultBody(ret)
       IN  /\ stack' = Pop
           /\ ret' = b.ret
           /\ uvRet' = b.ret
           /\ arith' = arith \o b.arith
           /\ quot' = b.quot
    /\ UNCHANGED <<kind, chan, calls, cur, nvRet, classified>>

MvDefaultCall ==
    /\ Running("mv_default", "call")
    /\ stack' = Append([stack EXCEPT ![Len(stack)].pc = "wait"],
                       Frame(MvDefaultCallee(kind), "uv", 0))
    /\ UNCHANGED <<kind, chan, calls, ret, cur, nvRet, uvRet, arith, quot, classified>>

MvDefaultReturn ==
    /\ Running("mv_default", "wait")
    /\ Returned
    /\ LET b == MvDefaultBody(ret)
       IN  /\ stack' = Pop
           /\ ret' = b.ret
           /\ arith' = arith \o b.arith
    /\ UNCHANGED <<kind, chan, calls, cur, nvRet, uvRet, quot, classified>>

(***************************************************************************)
(* The documented example driver MySpinningAdc.                            *)
(***************************************************************************)
SpinNvCall ==
    /\ Running("spin_nv", "call")
    /\ stack' = Append([stack EXCEPT ![Len(stack)].pc = "wait"],
                       Frame(Dispatch(kind, "mv"), "mv", 0))
    /\ chan' = [chan EXCEPT !.nvCalls = @ + 1]
    /\ UNCHANGED <<kind, calls, ret, cur, nvRet, uvRet, arith, quot, classified>>

SpinNvReturn ==
    /\ Running("spin_nv", "wait")
    /\ Returned
    /\ stack' = Pop
    /\ ret' = SpinNvBody(ret)
    /\ nvRet' = SpinNvBody(ret)
    /\ UNCHANGED <<kind, chan, calls, cur, uvRet, arith, quot, classified>>

\* while !self.is_ready() { core::hint::spin_loop(); }, is_ready false
SpinMvPoll ==
    /\ Running("spin_mv", "call")
    /\ chan.spins > 0
    /\ chan' = [chan EXCEPT !.spins = @ - 1]
    /\ UNCHANGED <<kind, calls, stack, ret, cur, nvRet, uvRet, arith, quot, classified>>

\* is_ready true: Ok(self.data() as i32)
SpinMvData ==
    /\ Running("spin_mv", "call")
    /\ chan.spins = 0
    /\ stack' = Pop
    /\ ret' = Ok32(Data)
    /\ UNCHANGED <<kind, chan, calls, cur, nvRet, uvRet, arith, quot, classified>>

(***************************************************************************)
(* Specifications.                                                         *)
(***************************************************************************)
SpinStep ==
    \/ ForwardCall
    \/ ForwardReturn
    \/ UvDefaultCall
    \/ UvDefaultReturn
    \/ SpinNvCall
    \/ SpinNvReturn
    \/ SpinMvPoll
    \/ SpinMvData

Step ==
    \/ SpinStep
    \/ DriverNv
    \/ UvOverride
    \/ MvOverride
    \/ MvDefaultCall
    \/ MvDefaultReturn

Next ==
    \/ \E op \in Ops, d \in 0..MaxDepth : Call(op, d)
    \/ Classify
    \/ Step

SpinNext ==
    \/ \E op \in Ops, d \in 0..MaxDepth : Call(op, d)
    \/ SpinStep

Spec == Init /\ [][Next]_vars

\* A blocking call runs on the caller's thread until it returns.
SpinSpec == SpinInit /\ [][SpinNext]_vars /\ WF_vars(SpinStep)

(***************************************************************************)
(* Vocabulary of the properties.                                           *)
(***************************************************************************)
\* The call has returned to the consumer.
Done ==
    /\ stack = <<>>
    /\ cur.op # "none"

UvIsDefault == Dispatch(kind, "uv") = "uv_default"
MvIsDefault == Dispatch(kind, "mv") = "mv_default"

\* The operation of the call is a default method running on top of the
\* driver's measure_nv alone.
DerivedFromNv ==
    \/ cur.op = "uv" /\ UvIsDefault
    \/ cur.op = "mv" /\ MvIsDefault /\ UvIsDefault

\* n - q * k on 64 bits, for an i64 q.
Diff64(n, q, k) == WrappingAdd64(n, WrappingNeg64(Mul64(q, k)))

\* |q| * k needs no more than 63 bits.
MulFits(q, k) ==
    LET lo == UMulSmall(UnsignedAbs64(q), k % LimbHalf)
        h1 == UMulSmall(UnsignedAbs64(q), k \div LimbHalf)
        h2 == UMulSmall(h1.val, LimbHalf)
        s  == AddC(lo.val, h2.val, 0)
    IN  /\ lo.carry = 0
        /\ h1.carry = 0
        /\ h2.carry = 0
        /\ s.carry = 0
        /\ s.val[4] < LimbHalf

\* |x| < b, for 0 < b <= 2^20.
AbsBelow(x, b) ==
    LET a == UnsignedAbs64(x)
    IN  /\ a[4] = 0
        /\ a[3] = 0
        /\ a[2] < 16
        /\ a[2] * LimbBase + a[1] < b

ZeroOrSameSign(d, n) ==
    \/ d = I64Zero
    \/ IsNeg64(d) = IsNeg64(n)

\* a <= b, both unsigned.
ULe(a, b) == USub(b, a).borrow = 0

\* n / 1000 lies within -2^31 .. 2^31 - 1.
InUvRange(n) ==
    IF IsNeg64(n)
    THEN ULe(UnsignedAbs64(n), Dec(<<2, 147, 483, 648, 999>>))
    ELSE ULe(n, Dec(<<2, 147, 483, 647, 999>>))

\* The operations called directly on a driver of kind k in state c: the
\* result and the state C is left in.
DirectNv(k, c) ==
    IF k = "spinning"
    THEN [ret  |-> SpinNvBody(Ok32(Data)),
          chan |-> [c EXCEPT !.nvCalls = @ + 1, !.spins = 0]]
    ELSE [ret  |-> c.nv,
          chan |-> [c EXCEPT !.nvCalls = @ + 1]]

DirectUv(k, c) ==
    IF k = "ovUv"
    THEN [ret |-> c.uv, chan |-> [c EXCEPT !.uvCalls = @ + 1]]
    ELSE LET r == DirectNv(k, [c EXCEPT !.uvCalls = @ + 1])
         IN  [ret |-> UvDefaultBody(r.ret).ret, chan |-> r.chan]

DirectMv(k, c) ==
    CASE k = "ovMv"     -> [ret |-> c.mv, chan |-> c]
      [] k = "spinning" -> [ret |-> Ok32(Data), chan |-> [c EXCEPT !.spins = 0]]
      [] OTHER          -> LET r == DirectUv(k, c)
                           IN  [ret |-> MvDefaultBody(r.ret).ret, chan |-> r.chan]

Direct(k, op, c) ==
    CASE op = "nv" -> DirectNv(k, c)
      [] op = "uv" -> DirectUv(k, c)
      [] op = "mv" -> DirectMv(k, c)

(***************************************************************************)
(* Properties.                                                             *)
(***************************************************************************)
\* C1: whenever measure_nv returned Ok(n), the default measure_uv returns
\* Ok(u) where u is the low 32 bits, in two's complement, of the quotient
\* q of n by 1000 rounded toward zero: n - 1000 * q is smaller than 1000
\* in magnitude and is zero or has the sign of n (-1500 gives -1, not -2).
C1_UvTruncatesThenNarrows ==
    (uvRet.tag # "None" /\ UvIsDefault /\ nvRet.tag = "Ok") =>
        /\ uvRet.tag = "Ok"
        /\ MulFits(quot, Thousand)
        /\ AbsBelow(Diff64(nvRet.wide, quot, Thousand), Thousand)
        /\ ZeroOrSameSign(Diff64(nvRet.wide, quot, Thousand), nvRet.wide)
        /\ uvRet.val % LimbBase = quot[1]
        /\ (uvRet.val \div LimbBase) % LimbBase = quot[2]

C1_Witness ==
    /\ Done
    /\ cur.op = "uv"
    /\ UvIsDefault
    /\ nvRet.tag = "Ok"
    /\ nvRet.wide = WrappingNeg64(Dec(<<1, 500>>))
    /\ ret.tag = "Ok"
    /\ ret.val = -1

\* C2: a call of the default measure_mv returns Ok(m) where m is u / 1000
\* rounded toward zero and u is the value the channel's own measure_uv,
\* default or overridden, returned in Ok for that call.
C2_MvFromUv ==
    (Done /\ cur.op = "mv" /\ MvIsDefault) =>
        /\ kind = "ovUv" => uvRet = cur.chan.uv
        /\ uvRet.tag = "Ok" =>
              /\ ret.tag = "Ok"
              /\ ret.val \in -2147483..2147483
              /\ uvRet.val >= 0 => uvRet.val - Thousand * ret.val \in 0..(Thousand - 1)
              /\ uvRet.val <= 0 => uvRet.val - Thousand * ret.val \in (1 - Thousand)..0

C2_Witness ==
    /\ Done
    /\ cur.op = "mv"
    /\ kind = "ovUv"
    /\ nvRet.tag = "None"
    /\ uvRet.tag = "Ok"
    /\ uvRet.val = -1999
    /\ ret.tag = "Ok"
    /\ ret.val = -1

\* C3: if measure_nv failed with error e, the default measure_uv and the
\* default measure_mv return Err(e), with that same e, and perform no
\* division and no narrowing in that call.
C3_ErrorPropagated ==
    (Done /\ DerivedFromNv /\ nvRet.tag = "Err") =>
        /\ ret.tag = "Err"
        /\ ret.err = nvRet.err
        /\ arith = <<>>

C3_Witness ==
    /\ Done
    /\ cur.op = "mv"
    /\ DerivedFromNv
    /\ nvRet.tag = "Err"
    /\ nvRet.err = "Timeout"
    /\ ret.tag = "Err"
    /\ ret.err = "Timeout"

\* C4: each of the three operations, called through one or more mutable
\* borrows of C, returns what the operation called directly on C returns
\* and leaves C in the state the direct call leaves it in; a driver's
\* override runs through the handle, not the trait's default.
C4_HandleForwards ==
    (Done /\ cur.depth > 0) =>
        /\ ret = Direct(kind, cur.op, cur.chan).ret
        /\ chan = Direct(kind, cur.op, cur.chan).chan

C4_Witness ==
    /\ Done
    /\ cur.depth = 2
    /\ cur.op = "uv"
    /\ kind = "ovUv"
    /\ cur.chan.nv.tag = "Ok"
    /\ cur.chan.nv.wide = Dec(<<1, 0, 0>>)
    /\ ret.tag = "Ok"
    /\ ret.val = -1999

\* C5: a default measure_uv or measure_mv on top of measure_nv returns Ok
\* whenever measure_nv returned Ok, for the smallest and the largest i64
\* too, never panics, and returns Err only when measure_nv returned Err in
\* that call.
C5_NoNewFailure ==
    (Done /\ DerivedFromNv) =>
        /\ ret.tag \in { "Ok", "Err" }
        /\ nvRet.tag = "Ok" => ret.tag = "Ok"
        /\ ret.tag = "Err" => nvRet.tag = "Err"

C5_Witness ==
    /\ Done
    /\ DerivedFromNv
    /\ cur.op = "uv"
    /\ nvRet.tag = "Ok"
    /\ nvRet.wide = I64Min
    /\ ret.tag = "Ok"

\* C6 as stated: for every n that measure_nv returned, the default
\* measure_uv result u has |n - 1000 * u| < 1000 with n - 1000 * u zero or
\* of the sign of n, and the default measure_mv result m has
\* |n - 1000000 * m| < 1000000.
C6_Original ==
    /\ (uvRet.tag = "Ok" /\ UvIsDefault /\ nvRet.tag = "Ok") =>
          /\ AbsBelow(Diff64(nvRet.wide, AsI64(uvRet.val), Thousand), Thousand)
          /\ ZeroOrSameSign(Diff64(nvRet.wide, AsI64(uvRet.val), Thousand), nvRet.wide)
    /\ (Done /\ cur.op = "mv" /\ DerivedFromNv /\ nvRet.tag = "Ok" /\ ret.tag = "Ok") =>
          AbsBelow(Diff64(nvRet.wide, AsI64(ret.val), NvPerMv), NvPerMv)

\* C6, amended: the same, for every n that measure_nv returned whose
\* quotient n / 1000 lies within the signed 32-bit range.
C6_TruncationOnlyInRange ==
    /\ (uvRet.tag = "Ok" /\ UvIsDefault /\ nvRet.tag = "Ok" /\ InUvRange(nvRet.wide)) =>
          /\ AbsBelow(Diff64(nvRet.wide, AsI64(uvRet.val), Thousand), Thousand)
          /\ ZeroOrSameSign(Diff64(nvRet.wide, AsI64(uvRet.val), Thousand), nvRet.wide)
    /\ (Done /\ cur.op = "mv" /\ DerivedFromNv /\ nvRet.tag = "Ok" /\ ret.tag = "Ok"
             /\ InUvRange(nvRet.wide)) =>
          AbsBelow(Diff64(nvRet.wide, AsI64(ret.val), NvPerMv), NvPerMv)

C6_Witness ==
    /\ Done
    /\ cur.op = "mv"
    /\ DerivedFromNv
    /\ nvRet.tag = "Ok"
    /\ nvRet.wide = Dec(<<2, 147, 483, 647, 999>>)
    /\ uvRet.tag = "Ok"
    /\ uvRet.val = 2147483647
    /\ ret.tag = "Ok"
    /\ ret.val = 2147483

\* C7: kind() of an ErrorKind is that ErrorKind, however many times it is
\* applied, and the error value it was applied to is unchanged.
C7_KindIsFixedPoint ==
    classified.times > 0 =>
        /\ ret.tag = "Err"
        /\ ret.err \in ErrorKinds
        /\ classified.kind = ret.err

C7_Witness ==
    /\ classified.times = MaxKind
    /\ classified.kind = "Other"
    /\ ret.tag = "Err"
    /\ ret.err = "Other"

\* C8: on MySpinningAdc every call returns, measure_nv with
\* 3_300_000_000, measure_uv with 3_300_000 and measure_mv with 3_300; no
\* method is entered while it is already running; and the overridden
\* measure_mv returns what the default chain makes of measure_nv.
C8_Results ==
    IF ~Done THEN TRUE
    ELSE CASE cur.op = "nv" ->
                /\ ret.tag = "Ok"
                /\ ret.wide = Dec(<<3, 300, 0, 0>>)
           [] cur.op = "uv" ->
                /\ ret.tag = "Ok"
                /\ ret.val = 3300000
           [] cur.op = "mv" ->
                /\ ret.tag = "Ok"
                /\ ret.val = 3300
                /\ ret = MvDefaultBody(UvDefaultBody(
                               DirectNv(kind, cur.chan).ret).ret).ret

C8_NoRecursion ==
    \A i, j \in 1..Len(stack) :
        (i < j /\ stack[i].fn = stack[j].fn) => stack[i].fn = "fwd"

C8_SpinningAdc ==
    /\ [](C8_Results /\ C8_NoRecursion)
    /\ (stack # <<>>) ~> Done

C8_Witness ==
    /\ Done
    /\ kind = "spinning"
    /\ cur.op = "uv"
    /\ cur.chan.spins = MaxSpin
    /\ chan.spins = 0
    /\ ret.tag = "Ok"
    /\ ret.val = 3300000

\* C9: with the default methods a call of measure_uv invokes measure_nv
\* once, a call of measure_mv invokes measure_uv once and measure_nv once,
\* also when the sample fails; after k calls on a driver that overrides
\* nothing, measure_nv has been invoked k times.
C9_OneSamplePerCall ==
    /\ (Done /\ DerivedFromNv) =>
          /\ chan.nvCalls = cur.chan.nvCalls + 1
          /\ chan.uvCalls = cur.chan.uvCalls + 1
    /\ (kind = "plain" /\ stack = <<>>) => chan.nvCalls = calls

C9_Witness ==
    /\ Done
    /\ kind = "plain"
    /\ cur.op = "uv"
    /\ calls = 2
    /\ chan.nvCalls = 2
    /\ cur.chan.nvCalls = 1
    /\ ret.tag = "Err"

\* C10: for every n that measure_nv returned whose quotient n / 1000 lies
\* within the signed 32-bit range, the chained default measure_mv result m
\* is n / 1_000_000 rounded toward zero, for negative n too:
\* |n - 1000000 * m| < 1000000 and n - 1000000 * m is zero or has the sign
\* of n.
C10_ChainedEqualsDirect ==
    (Done /\ cur.op = "mv" /\ DerivedFromNv /\ nvRet.tag = "Ok" /\ InUvRange(nvRet.wide)) =>
        /\ ret.tag = "Ok"
        /\ AbsBelow(Diff64(nvRet.wide, AsI64(ret.val), NvPerMv), NvPerMv)
        /\ ZeroOrSameSign(Diff64(nvRet.wide, AsI64(ret.val), NvPerMv), nvRet.wide)

C10_Witness ==
    /\ Done
    /\ cur.op = "mv"
    /\ DerivedFromNv
    /\ nvRet.tag = "Ok"
    /\ nvRet.wide = WrappingNeg64(Dec(<<1, 0, 1>>))
    /\ ret.tag = "Ok"
    /\ ret.val = -1
====
